---------------------------- MODULE Spec2Model ----------------------------
(***************************************************************************)
(* Downtime calendar construction of technical/downtime_check/the35down.py *)
(*                                                                         *)
(*   - UnscheduledDowntimeDataYearOne.make_data: the per-night sampler,    *)
(*     one action per way a night of the loop can go (SpecSampler);        *)
(*   - new_downtimes: the selection of the year-one nights handed to the   *)
(*     sampler (Init of SpecSampler) and the sort / fixed-point merge of   *)
(*     the intervals of the three sources (SpecMerge).                     *)
(*                                                                         *)
(* Times are integers, in ticks: TicksPerHour ticks make an hour and       *)
(* HoursPerDay hours a day (an mjd unit).  Probabilities are integers in   *)
(* units of 1/PScale.  Floating-point rounding is not modelled.            *)
(***************************************************************************)
EXTENDS Integers, Sequences, FiniteSets

VARIABLES
    \* ----- new_downtimes: the merge
    mpc,            \* position in new_downtimes, lines 259-294
    input,          \* zip(down_starts, down_ends) as collected from the sources
    downtimes,      \* the structured array `downtimes`
    diff,           \* the array `diff`
    passes,         \* number of bodies of the while loop run so far
    \* ----- UnscheduledDowntimeDataYearOne
    pc,             \* position in make_data
    caller,         \* who constructed the sampler
    sunsets,        \* self.sunsets, as a Column
    sunrises,       \* self.sunrises, as a Column
    night,          \* loop index of `for night, (sunset, sunrise) in enumerate(...)`
    night_counted,  \* the array night_counted
    starts,         \* the lists starts / ends / acts
    ends,
    acts,
    prob,           \* the locals prob, hours_in_night, prob_time
    hours_in_night,
    prob_time,
    rng,            \* self.rng: how often it was seeded and drawn from
    downtime        \* self.downtime

mvars == <<mpc, input, downtimes, diff, passes>>
svars == <<pc, caller, sunsets, sunrises, night, night_counted, starts, ends,
           acts, prob, hours_in_night, prob_time, rng, downtime>>
vars == <<mvars, svars>>

Max(a, b) == IF a >= b THEN a ELSE b
Min(a, b) == IF a <= b THEN a ELSE b

-----------------------------------------------------------------------------
(* Bounds of the merge model *)

\* the largest number of intervals the three sources deliver together
MaxIntervals == 3
\* timestamps of the merge inputs are 0..MaxTime
MaxTime == 3

Times == 0..MaxTime
\* a record of the array: any pair of timestamps, end <= start included
Interval == [start : Times, end : Times]

RECURSIVE SeqsUpTo(_, _)
SeqsUpTo(S, n) ==
    IF n = 0 THEN {<<>>}
    ELSE LET shorter == SeqsUpTo(S, n - 1)
         IN  shorter \cup {Append(s, x) : s \in {t \in shorter : Len(t) = n - 1}, x \in S}

-----------------------------------------------------------------------------
(* new_downtimes, lines 274-294 *)

\* order="start": numpy compares the named field first and breaks ties with
\* the remaining fields in dtype order, here `end`
RecordLess(a, b) == a.start < b.start \/ (a.start = b.start /\ a.end < b.end)

RECURSIVE Insert(_, _)
Insert(s, x) ==
    IF s = <<>> THEN <<x>>
    ELSE IF RecordLess(x, Head(s)) THEN <<x>> \o s
    ELSE <<Head(s)>> \o Insert(Tail(s), x)

RECURSIVE SortByStart(_)
SortByStart(s) ==
    IF s = <<>> THEN <<>> ELSE Insert(SortByStart(Tail(s)), Head(s))

\* downtimes["start"][1:] - downtimes["end"][0:-1]
Diff(d) == [i \in 1..(Len(d) - 1) |-> d[i + 1].start - d[i].end]

\* the test looks at the first pair only
MinDiffNegative_FirstOnly(df) == df[1] < 0

\* np.min(diff) < 0, for a non-empty diff
MinDiffNegative(df) == \E i \in 1..Len(df) : df[i] < 0

\* the for loop of lines 284-288 from index i on; dt is a view of the array,
\* so dt["end"] reads what the previous iteration wrote
RECURSIVE ForLoopFrom(_, _)
ForLoopFrom(d, i) ==
    IF i >= Len(d) THEN d
    ELSE IF d[i + 1].start < d[i].end
         THEN LET new_end == Max(d[i].end, d[i + 1].end)
              IN  ForLoopFrom([d EXCEPT ![i].end = new_end, ![i + 1].end = new_end], i + 1)
         ELSE ForLoopFrom(d, i + 1)

\* np.roll(downtimes["end"], 1)
Roll(d) == [i \in 1..Len(d) |-> d[IF i = 1 THEN Len(d) ELSE i - 1].end]

\* np.where(downtimes["end"] - np.roll(downtimes["end"], 1) != 0)
Good(d) == {i \in 1..Len(d) : d[i].end - Roll(d)[i] # 0}

\* downtimes[good]
RECURSIVE TakeFrom(_, _, _)
TakeFrom(d, good, i) ==
    IF i > Len(d) THEN <<>>
    ELSE (IF i \in good THEN <<d[i]>> ELSE <<>>) \o TakeFrom(d, good, i + 1)

Take(d, good) == TakeFrom(d, good, 1)

\* the sampler is not running while the merge is examined
SamplerIdle ==
    /\ pc = "idle" /\ caller = "none"
    /\ sunsets = [n |-> 0, first |-> 0, step |-> 0]
    /\ sunrises = [n |-> 0, first |-> 0, step |-> 0]
    /\ night = 0 /\ night_counted = <<>> /\ starts = <<>> /\ ends = <<>>
    /\ acts = <<>> /\ prob = 0 /\ hours_in_night = 0 /\ prob_time = 0
    /\ rng = [seeded |-> 0, random |-> 0, gumbel |-> 0, uniform |-> 0]
    /\ downtime = "None"

\* lines 259-277: the intervals of the three sources, in the order collected
MergeInit ==
    /\ input \in SeqsUpTo(Interval, MaxIntervals)
    /\ mpc = "sort"
    /\ downtimes = input
    /\ diff = <<>>
    /\ passes = 0
    /\ SamplerIdle

\* lines 278-281
SortDowntimes ==
    /\ mpc = "sort"
    /\ downtimes' = SortByStart(downtimes)
    /\ diff' = Diff(downtimes')
    /\ mpc' = "while"
    /\ UNCHANGED <<input, passes, svars>>

\* line 282 with an empty diff: np.min raises ValueError
WhileRaises ==
    /\ mpc = "while"
    /\ Len(diff) = 0
    /\ mpc' = "ValueError"
    /\ UNCHANGED <<input, downtimes, diff, passes, svars>>

\* line 282, condition true
WhileEnter ==
    /\ mpc = "while"
    /\ Len(diff) > 0
    /\ MinDiffNegative(diff)
    /\ mpc' = "for"
    /\ passes' = passes + 1
    /\ UNCHANGED <<input, downtimes, diff, svars>>

\* lines 284-288
ForLoop ==
    /\ mpc = "for"
    /\ downtimes' = ForLoopFrom(downtimes, 1)
    /\ mpc' = "dedup"
    /\ UNCHANGED <<input, diff, passes, svars>>

\* lines 290-292
Dedup ==
    /\ mpc = "dedup"
    /\ downtimes' = Take(downtimes, Good(downtimes))
    /\ diff' = Diff(downtimes')
    /\ mpc' = "while"
    /\ UNCHANGED <<input, passes, svars>>

\* line 282, condition false, and line 294
ReturnDowntimes ==
    /\ mpc = "while"
    /\ Len(diff) > 0
    /\ ~MinDiffNegative(diff)
    /\ mpc' = "returned"
    /\ UNCHANGED <<input, downtimes, diff, passes, svars>>

MergeNext ==
    \/ SortDowntimes
    \/ WhileRaises
    \/ WhileEnter
    \/ ForLoop
    \/ Dedup
    \/ ReturnDowntimes

SpecMerge == MergeInit /\ [][MergeNext]_vars

-----------------------------------------------------------------------------
(* Properties of the merge *)

Terminal == {"returned", "ValueError"}

\* end > start
ValidInterval(r) == r.end > r.start
AllValid(d) == \A i \in 1..Len(d) : ValidInterval(d[i])

\* the unit cells [t, t+1) of time an array of intervals covers
Covered(d) == {t \in Times : \E i \in 1..Len(d) : d[i].start <= t /\ t < d[i].end}

SortedByStart(d) == \A i \in 1..(Len(d) - 1) : d[i].start <= d[i + 1].start
NoAdjacentOverlap(d) == \A i \in 1..(Len(d) - 1) : d[i].end <= d[i + 1].start

\* C1: whenever new_downtimes returns, the returned array is sorted ascending
\* by start and every adjacent pair has end[i] <= start[i+1], whatever the
\* intervals the sources delivered.
C1_MergePostcondition ==
    mpc = "returned" => SortedByStart(downtimes) /\ NoAdjacentOverlap(downtimes)

\* C1's case: a return after the loop body ran and coalesced an overlap,
\* with several intervals left
C1_Witness ==
    /\ mpc = "returned"
    /\ passes >= 1
    /\ Len(downtimes) >= 2
    /\ Len(downtimes) < Len(input)

\* C2: for valid intervals (at least two of them, so that there is a diff to
\* take), the merge ends by returning a calendar that covers exactly the time
\* the input covers; the inputs that chain into one cluster are among them.
C2_CoveragePreserved ==
    (AllValid(input) /\ Len(input) >= 2 /\ mpc \in Terminal)
        => (mpc = "returned" /\ Covered(downtimes) = Covered(input))

\* what does hold of the coverage: a calendar that is returned covers what the
\* valid input covered
CoverageWhenReturned ==
    (AllValid(input) /\ mpc = "returned") => Covered(downtimes) = Covered(input)

\* C3: for valid intervals (at least two) the loop ends normally, with a
\* calendar, after at most as many passes as there are input intervals.
C3_LoopEndsNormally ==
    /\ passes <= Len(input)
    /\ (AllValid(input) /\ Len(input) >= 2 /\ mpc \in Terminal) => mpc = "returned"

\* what does hold of the loop: every pass drops at least one record, so
\* there are never more passes than input intervals
PassesBounded ==
    /\ passes + Len(downtimes) <= Len(input) + (IF mpc \in {"for", "dedup"} THEN 1 ELSE 0)
    /\ passes <= Len(input)

\* C7: an input with an interval whose end <= start is never answered with a
\* calendar (it is to fail with InvalidInput).
C7_MalformedNeverAccepted ==
    (\E i \in 1..Len(input) : ~ValidInterval(input[i])) => mpc # "returned"

-----------------------------------------------------------------------------
(* Bounds and units of the sampler model *)

\* resolution of the clock: ticks in an hour
TicksPerHour == 2
\* (sunrise - sunset) * 24.0 and tmax / 24.0: hours in an mjd day
HoursPerDay == 24
\* nights of the input, counted from its end, whose draws are explored in
\* full; on the nights before them the stream yields a value that fires
\* nothing
FreeNights == 16
\* once this many intervals are out, the stream yields only values that fire
\* nothing
MaxEvents == 2
\* nights the almanac holds past the elevated window
SteadyNights == 15

Hour == TicksPerHour
Day == HoursPerDay * TicksPerHour

\* rng.random() yields a float in [0, 1): held as an integer count of
\* 1/PScale
PScale == 1000000

\* the almanacs explored, by the distance between consecutive sunsets and the
\* length of a night, in ticks: nights over an hour long a day apart, and
\* nights under an hour long whose sunsets come earlier every day
NightShapes == {[step |-> Day, len |-> Hour + 1], [step |-> Day - 1, len |-> 1]}

\* values of rng.random(): one in every band the code tells apart, and the
\* band edges
PValues == {273, 274, 1370, 5480, 13700, 80000, 900000}
\* a value that fires nothing on any night
QuietValues == {900000}
\* values of rng.gumbel(loc=1, scale=6), in ticks; the distribution is
\* unbounded on both sides: a negative value, one under an hour, the hour, the
\* length of the longer night, and one past every night
GumbelValues == {0 - Hour, 1, Hour, Hour + 1, 3 * Hour}

-----------------------------------------------------------------------------
(* UnscheduledDowntimeDataYearOne, lines 92-95 and 161 *)

MINOR_EVENT == [P |-> 13700, length |-> 1, level |-> "minor event"]
INTERMEDIATE_EVENT == [P |-> 5480, length |-> 3, level |-> "intermediate event"]
MAJOR_EVENT == [P |-> 1370, length |-> 7, level |-> "major event"]
CATASTROPHIC_EVENT == [P |-> 274, length |-> 14, level |-> "catastrophic event"]

end_of_start == 380

\* new_downtimes, line 246: the nights handed to the sampler
Year1Nights == 366

-----------------------------------------------------------------------------
(* site_models.Almanac as new_downtimes reads it: one row per night, the   *)
(* night before mjd_start included                                         *)

AlmanacRows(step, len) ==
    [k \in 1..(end_of_start + SteadyNights + 1) |->
        [night |-> k - 2,
         sun_n12_setting |-> (k - 2) * step,
         sun_n12_rising |-> (k - 2) * step + len]]

\* rows[np.where(cond)] over rows a..b: the rows that satisfy cond, in the
\* order of the table
RECURSIVE SelectBetween(_, _, _, _, _)
SelectBetween(rows, lo, hi, a, b) ==
    IF a > b THEN <<>>
    ELSE IF a = b
         THEN (IF rows[a].night >= lo /\ rows[a].night < hi THEN <<rows[a]>> ELSE <<>>)
         ELSE LET mid == (a + b) \div 2
              IN  SelectBetween(rows, lo, hi, a, mid) \o SelectBetween(rows, lo, hi, mid + 1, b)

SelectRows(rows, lo, hi) == SelectBetween(rows, lo, hi, 1, Len(rows))

\* the selection keeps every night from mjd_start on
Year1Rows_NoUpper(rows) == SelectRows(rows, 0, Len(rows))

\* line 246: np.where((night >= 0) & (night < 366))
Year1Rows(rows) == SelectRows(rows, 0, Year1Nights)

\* a caller of the class that hands it every night from mjd_start on
AllRows(rows) == SelectRows(rows, 0, Len(rows))

\* A column of the selected rows.  The almanac of this model spaces its nights
\* evenly, so a column is an arithmetic progression: it is held as its length,
\* its first value and its spacing, and At reads element n (0-based, as the
\* code indexes it).
Column(rows, field, step) ==
    [n |-> Len(rows), first |-> rows[1][field], step |-> step]
Length(column) == column.n
At(column, n) == column.first + n * column.step

\* the merge is not running while the sampler is examined
MergeIdle ==
    /\ mpc = "idle" /\ input = <<>> /\ downtimes = <<>> /\ diff = <<>>
    /\ passes = 0

\* lines 245-252 and __init__, lines 103-108
SamplerInit ==
    /\ caller \in {"new_downtimes", "direct"}
    /\ \E shape \in NightShapes :
          \E rows \in {IF caller = "new_downtimes"
                       THEN Year1Rows(AlmanacRows(shape.step, shape.len))
                       ELSE AllRows(AlmanacRows(shape.step, shape.len))} :
              /\ sunsets = Column(rows, "sun_n12_setting", shape.step)
              /\ sunrises = Column(rows, "sun_n12_rising", shape.step)
    /\ pc = "make_data"
    /\ night = 0
    /\ night_counted = <<>>
    /\ starts = <<>> /\ ends = <<>> /\ acts = <<>>
    /\ prob = 0 /\ hours_in_night = 0 /\ prob_time = 0
    /\ rng = [seeded |-> 0, random |-> 0, gumbel |-> 0, uniform |-> 0]
    /\ downtime = "None"
    /\ MergeIdle

-----------------------------------------------------------------------------
(* make_data, lines 155-226 *)

\* the generator is seeded again before each nightly draw
DrawRandom_Reseeds(r) == [r EXCEPT !.random = @ + 1, !.seeded = @ + 1]

\* np.random.default_rng(seed=self.seed), rng.random(), rng.gumbel(...),
\* rng.uniform(...): what each does to the generator, lines 155, 166, 178, 190
Seed(r) == [r EXCEPT !.seeded = @ + 1]
DrawRandom(r) == [r EXCEPT !.random = @ + 1]
DrawGumbel(r) == [r EXCEPT !.gumbel = @ + 1]
DrawUniform(r) == [r EXCEPT !.uniform = @ + 1]

\* lines 155-163
BeginMakeData ==
    /\ pc = "make_data"
    /\ rng' = Seed(rng)
    /\ starts' = <<>> /\ ends' = <<>> /\ acts' = <<>>
    /\ night_counted' = [k \in 1..Length(sunsets) |-> 0]
    /\ night' = 0
    /\ pc' = "loop"
    /\ UNCHANGED <<caller, sunsets, sunrises, prob, hours_in_night, prob_time,
                   downtime, mvars>>

\* the values rng.random() can yield on this night
PDraws ==
    IF night >= Length(sunsets) - FreeNights /\ Len(starts) < MaxEvents
    THEN PValues ELSE QuietValues

\* night_counted[night] == 1 (the arrays are 0-based in the code, 1-based here)
Counted(n) == night_counted[n + 1] = 1

\* line 174-175: prob <= 0.5 * (1 - night / (end_of_start + 45))
UnderNightlyThreshold(p, n) ==
    p * 2 * (end_of_start + 45) <= PScale * (end_of_start + 45 - n)

\* the lower clamp of lines 181-182 is missing
ClampProbTime_NoFloor(g, hours) == IF g >= hours THEN hours ELSE g

\* lines 179-182
ClampProbTime(g, hours) ==
    LET capped == IF g >= hours THEN hours ELSE g
    IN  IF capped <= Hour THEN Hour ELSE capped

\* only night_counted[night] is set
MarkCounted_FirstOnly(nc, n, length) == [nc EXCEPT ![n + 1] = 1]

\* night_counted[night:night + length] = 1: the slice stops at the array's end
RECURSIVE MarkCounted(_, _, _)
MarkCounted(nc, n, length) ==
    IF length <= 0 \/ n + 1 > Len(nc) THEN nc
    ELSE MarkCounted([nc EXCEPT ![n + 1] = 1], n + 1, length - 1)

\* lines 166-167, the head of every iteration
IterationHead(p) ==
    /\ pc = "loop"
    /\ night < Length(sunsets)
    /\ p \in PDraws
    /\ prob' = p
    /\ hours_in_night' = At(sunrises, night) - At(sunsets, night)
    /\ night' = night + 1

\* lines 168-169
SkipCounted ==
    \E p \in PValues :
        /\ IterationHead(p)
        /\ Counted(night)
        /\ rng' = DrawRandom(rng)
        /\ UNCHANGED <<pc, caller, sunsets, sunrises, night_counted, starts,
                       ends, acts, prob_time, downtime, mvars>>

\* lines 171-175, 194-195: no downtime this night
ElevatedNoEvent ==
    \E p \in PValues :
        /\ IterationHead(p)
        /\ ~Counted(night)
        /\ night < end_of_start
        /\ ~UnderNightlyThreshold(p, night)
        /\ night_counted' = MarkCounted(night_counted, night, 1)
        /\ rng' = DrawRandom(rng)
        /\ UNCHANGED <<pc, caller, sunsets, sunrises, starts, ends, acts,
                       prob_time, downtime, mvars>>

\* lines 171-188, 194-195: the downtime takes the whole night
ElevatedFullNight ==
    \E p \in PValues, g \in GumbelValues :
        LET hours == At(sunrises, night) - At(sunsets, night)
            pt == ClampProbTime(g, hours)
            tmax == hours - pt
        IN  /\ IterationHead(p)
            /\ ~Counted(night)
            /\ night < end_of_start
            /\ UnderNightlyThreshold(p, night)
            /\ tmax <= 0
            /\ prob_time' = pt
            /\ starts' = Append(starts, At(sunsets, night))
            /\ ends' = Append(ends, At(sunrises, night))
            /\ acts' = Append(acts, "Year1 Eng")
            /\ night_counted' = MarkCounted(night_counted, night, 1)
            /\ rng' = DrawGumbel(DrawRandom(rng))
            /\ UNCHANGED <<pc, caller, sunsets, sunrises, downtime, mvars>>

\* lines 171-185, 189-195: the downtime starts at a drawn offset
ElevatedOffset ==
    \E p \in PValues, g \in GumbelValues :
        LET hours == At(sunrises, night) - At(sunsets, night)
            pt == ClampProbTime(g, hours)
            tmax == hours - pt
        IN  /\ IterationHead(p)
            /\ ~Counted(night)
            /\ night < end_of_start
            /\ UnderNightlyThreshold(p, night)
            /\ tmax > 0
            /\ prob_time' = pt
            \* rng.uniform(low=sunset, high=sunset + tmax / 24.0): the high
            \* end can be returned through rounding
            /\ \E offset \in At(sunsets, night)..(At(sunsets, night) + tmax) :
                  /\ starts' = Append(starts, offset)
                  /\ ends' = Append(ends, offset + pt)
            /\ acts' = Append(acts, "Year1 Eng")
            /\ night_counted' = MarkCounted(night_counted, night, 1)
            /\ rng' = DrawUniform(DrawGumbel(DrawRandom(rng)))
            /\ UNCHANGED <<pc, caller, sunsets, sunrises, downtime, mvars>>

\* line 204 as an `if` of its own rather than an `elif`
IsMajor_NoElif(p) == p < MAJOR_EVENT.P

\* the conditions of the if / elif chain, lines 198, 204, 210, 216
IsCatastrophic(p) == p < CATASTROPHIC_EVENT.P
IsMajor(p) == ~IsCatastrophic(p) /\ p < MAJOR_EVENT.P
IsIntermediate(p) == ~IsCatastrophic(p) /\ ~IsMajor(p) /\ p < INTERMEDIATE_EVENT.P
IsMinor(p) ==
    ~IsCatastrophic(p) /\ ~IsMajor(p) /\ ~IsIntermediate(p) /\ p < MINOR_EVENT.P

\* start_time + TimeDelta(length, format="jd")
EndNight(start_time, length) == start_time + length * Day

\* lines 197 and one branch of 198-221
FireEvent(p, event) ==
    /\ IterationHead(p)
    /\ ~Counted(night)
    /\ ~(night < end_of_start)
    /\ starts' = Append(starts, At(sunsets, night))
    /\ ends' = Append(ends, EndNight(At(sunsets, night), event.length))
    /\ acts' = Append(acts, event.level)
    /\ night_counted' = MarkCounted(night_counted, night, event.length)
    /\ rng' = DrawRandom(rng)
    /\ UNCHANGED <<pc, caller, sunsets, sunrises, prob_time, downtime, mvars>>

\* lines 198-203
Catastrophic == \E p \in PValues : IsCatastrophic(p) /\ FireEvent(p, CATASTROPHIC_EVENT)

\* lines 204-209
Major == \E p \in PValues : IsMajor(p) /\ FireEvent(p, MAJOR_EVENT)

\* lines 210-215
Intermediate == \E p \in PValues : IsIntermediate(p) /\ FireEvent(p, INTERMEDIATE_EVENT)

\* lines 216-221
Minor == \E p \in PValues : IsMinor(p) /\ FireEvent(p, MINOR_EVENT)

\* lines 197-221 when no condition of the chain holds
SteadyNoEvent ==
    \E p \in PValues :
        /\ IterationHead(p)
        /\ ~Counted(night)
        /\ ~(night < end_of_start)
        /\ ~IsCatastrophic(p) /\ ~IsMajor(p) /\ ~IsIntermediate(p) /\ ~IsMinor(p)
        /\ rng' = DrawRandom(rng)
        /\ UNCHANGED <<pc, caller, sunsets, sunrises, night_counted, starts,
                       ends, acts, prob_time, downtime, mvars>>

\* lines 223-226
BuildDowntime ==
    /\ pc = "loop"
    /\ night = Length(sunsets)
    /\ downtime' = [k \in 1..Len(starts) |->
                       [start |-> starts[k], end |-> ends[k], activity |-> acts[k]]]
    /\ pc' = "done"
    /\ UNCHANGED <<caller, sunsets, sunrises, night, night_counted, starts, ends,
                   acts, prob, hours_in_night, prob_time, rng, mvars>>

SamplerNext ==
    \/ BeginMakeData
    \/ SkipCounted
    \/ ElevatedNoEvent
    \/ ElevatedFullNight
    \/ ElevatedOffset
    \/ Catastrophic
    \/ Major
    \/ Intermediate
    \/ Minor
    \/ SteadyNoEvent
    \/ BuildDowntime

SpecSampler == SamplerInit /\ [][SamplerNext]_vars

-----------------------------------------------------------------------------
(* Properties of the sampler *)

NumRecords == Len(starts)
Records == 1..NumRecords

\* the night whose window holds timestamp t, for t at or after its sunset and
\* before the next sunset
NightIndex(t) == (t - sunsets.first) \div sunsets.step

\* the night the last iteration of the loop handled
LastNight == night - 1

\* the last iteration appended a record
JustAppended ==
    /\ pc = "loop" /\ night >= 1 /\ NumRecords >= 1
    /\ starts[NumRecords] >= At(sunsets, LastNight)

\* the last iteration was an elevated-period night on which an event fired
JustFiredElevated == JustAppended /\ LastNight < 380

\* C4: no two intervals of one make_data call overlap, elevated-period and
\* steady-state intervals alike (the night windows of the model are in
\* chronological order: sunsets increase and no sunrise is after the next
\* sunset).
C4_NoSelfOverlap ==
    \A i, j \in Records :
        i # j => (ends[i] <= starts[j] \/ ends[j] <= starts[i])

\* what does hold: the intervals of the elevated period overlap neither each
\* other nor a steady-state interval
ElevatedNeverOverlap ==
    \A i, j \in Records :
        (i # j /\ acts[i] = "Year1 Eng")
            => (ends[i] <= starts[j] \/ ends[j] <= starts[i])

\* the emitted interval of an elevated-period night: inside the night, the
\* full night when no slack remains, else placed within the slack
ElevatedIntervalInNight ==
    LET sunset == At(sunsets, LastNight)
        sunrise == At(sunrises, LastNight)
        slack == hours_in_night - prob_time
        start == starts[NumRecords]
        end == ends[NumRecords]
    IN  /\ acts[NumRecords] = "Year1 Eng"
        /\ sunset <= start /\ start < end /\ end <= sunrise
        /\ IF slack <= 0
           THEN start = sunset /\ end = sunrise
           ELSE start <= sunset + slack /\ end = start + prob_time

\* C5 as stated: on every elevated-period night on which an event fires,
\* whatever the night length, the duration used is within
\* [1 hour, hours_in_night] and the interval lies within the night.
C5_DurationClamp ==
    JustFiredElevated =>
        /\ Hour <= prob_time /\ prob_time <= hours_in_night
        /\ ElevatedIntervalInNight

\* C5 as amended: the duration used is at least 1 hour and at most the longer
\* of 1 hour and hours_in_night (so within [1 hour, hours_in_night] on every
\* night of at least an hour, and 1 hour on a shorter night), and the interval
\* lies within the night, the full night when no slack remains.
C5_DurationClampAmended ==
    JustFiredElevated =>
        /\ Hour <= prob_time /\ prob_time <= Max(Hour, hours_in_night)
        /\ (hours_in_night >= Hour => prob_time <= hours_in_night)
        /\ (hours_in_night < Hour => prob_time = Hour)
        /\ ElevatedIntervalInNight

\* C5's case: an event fired on an elevated-period night with slack left and
\* a start drawn after the sunset
C5_Witness ==
    /\ JustFiredElevated
    /\ hours_in_night - prob_time > 0
    /\ starts[NumRecords] > At(sunsets, LastNight)

\* the severities as C6 lists them: threshold (in 1/PScale), days, label
\* of the first severity whose threshold exceeds p, or no severity
ClaimedSeverity(p) ==
    IF p < 274 THEN [days |-> 14, label |-> "catastrophic event"]
    ELSE IF p < 1370 THEN [days |-> 7, label |-> "major event"]
    ELSE IF p < 5480 THEN [days |-> 3, label |-> "intermediate event"]
    ELSE IF p < 13700 THEN [days |-> 1, label |-> "minor event"]
    ELSE [days |-> 0, label |-> "none"]

\* days a record with this label lasts, per C6
ClaimedDays(label) ==
    CASE label = "catastrophic event" -> 14
      [] label = "major event" -> 7
      [] label = "intermediate event" -> 3
      [] label = "minor event" -> 1
      [] OTHER -> 0

IsSteadyRecord(k) == acts[k] # "Year1 Eng"

\* night n lies in the nights an earlier steady-state event occupies
OccupiedByEarlier(n) ==
    \E k \in Records :
        /\ IsSteadyRecord(k)
        /\ NightIndex(starts[k]) < n
        /\ n < NightIndex(starts[k]) + ClaimedDays(acts[k])

\* C6: on a steady-state night (index >= 380) that is not occupied, the draw p
\* decides the outcome by first match in the order catastrophic, major,
\* intermediate, minor, none; a fired interval starts at the night's sunset,
\* ends duration_days days later and carries the severity's label; a night
\* produces at most one interval.
C6_SteadyOutcome ==
    (pc = "loop" /\ LastNight >= 380 /\ ~OccupiedByEarlier(LastNight)) =>
        LET sev == ClaimedSeverity(prob)
            sunset == At(sunsets, LastNight)
            here == {k \in Records : starts[k] >= sunset}
        IN  IF sev.label = "none"
            THEN here = {}
            ELSE /\ here = {NumRecords}
                 /\ starts[NumRecords] = sunset
                 /\ ends[NumRecords] = sunset + sev.days * Day
                 /\ acts[NumRecords] = sev.label

\* C6's case: a draw on the edge between the two rarest severities (it
\* satisfies every threshold but the catastrophic one) fired a major event
C6_Witness ==
    /\ JustAppended /\ LastNight >= 380
    /\ prob = 274
    /\ acts[NumRecords] = "major event"

\* C8: the nights n .. n+d-1 of a steady-state event (truncated at the last
\* night) are marked and start no other interval; night n+d is still unmarked
\* until the loop reaches it; an elevated-period night is marked once handled,
\* event or not, and yields no steady-state interval.
C8_Occupancy ==
    (pc \in {"loop", "done"}) =>
        /\ \A k \in Records :
              IsSteadyRecord(k) =>
                  LET n == NightIndex(starts[k])
                      d == ClaimedDays(acts[k])
                  IN  /\ n >= 380 /\ starts[k] = At(sunsets, n)
                      /\ \A m \in n..Min(n + d - 1, Length(sunsets) - 1) :
                            /\ night_counted[m + 1] = 1
                            /\ \A j \in Records :
                                  j # k => NightIndex(starts[j]) # m
                      /\ (n + d < Length(sunsets) /\ night <= n + d)
                            => night_counted[n + d + 1] = 0
        /\ (night >= 1 /\ LastNight < 380) => night_counted[LastNight + 1] = 1
        /\ \A k \in Records :
              acts[k] = "Year1 Eng" =>
                  /\ NightIndex(starts[k]) < 380
                  /\ \A j \in Records : j # k => NightIndex(starts[j]) # NightIndex(starts[k])

\* C8's case: a multi-day event fired on night n and the next event on night
\* n+d, the nights between having been passed over
C8_Witness ==
    /\ pc = "done"
    /\ \E k \in Records :
          /\ k + 1 \in Records
          /\ ClaimedDays(acts[k]) >= 3
          /\ NightIndex(starts[k + 1]) = NightIndex(starts[k]) + ClaimedDays(acts[k])

NumWhere(P(_)) == Cardinality({k \in Records : P(k)})
IsElevatedRecord(k) == acts[k] = "Year1 Eng"
HadSlack(k) ==
    IsElevatedRecord(k) /\ ends[k] - starts[k] < sunrises.first - sunsets.first

\* C9: the stream is seeded once, at the start of make_data, and never again;
\* one primary uniform value is drawn for every night handled, the nights
\* passed over as occupied included; a Gumbel value is drawn exactly for the
\* elevated-period events, and an offset exactly for those with slack.
C9_DrawDiscipline ==
    /\ rng.seeded = (IF pc = "make_data" THEN 0 ELSE 1)
    /\ rng.random = night
    /\ rng.gumbel = NumWhere(IsElevatedRecord)
    /\ rng.uniform = NumWhere(HadSlack)

\* C9's case: the run has an elevated-period event with a drawn offset and a
\* multi-day event whose later nights were passed over
C9_Witness ==
    /\ pc = "done"
    /\ rng.uniform >= 1
    /\ \E k \in Records :
          /\ ClaimedDays(acts[k]) >= 3
          /\ NightIndex(starts[k]) + 1 < Length(sunsets)

\* C10: constructed by new_downtimes, the sampler gets the nights 0..365 only,
\* so every interval it yields is a "Year1 Eng" interval inside one night, at
\* most one per night, and a steady-state night is never handled.
C10_YearOneOnly ==
    caller = "new_downtimes" =>
        /\ Length(sunsets) <= 366
        /\ night <= 366 /\ night <= 380
        /\ \A k \in Records :
              LET n == NightIndex(starts[k])
              IN  /\ acts[k] = "Year1 Eng"
                  /\ n >= 0 /\ n <= 365
                  /\ At(sunsets, n) <= starts[k] /\ ends[k] <= At(sunrises, n)
                  /\ \A j \in Records : j # k => NightIndex(starts[j]) # n

\* C10's case: a run constructed by new_downtimes went through all its nights
\* and yielded several intervals
C10_Witness ==
    /\ caller = "new_downtimes"
    /\ pc = "done"
    /\ night = 366
    /\ NumRecords >= 2

=============================================================================
